---- MODULE Spec2Model ----
(***************************************************************************)
(* Model of did/plugins/public_inbox.py: the Message wrapper, the          *)
(* _unique_messages generator, PublicInbox.get_all_threads with its        *)
(* thread-root lookup, and the two Stats classes that filter its output.   *)
(***************************************************************************)
EXTENDS Naturals, Integers, Sequences, FiniteSets, TLC

\* ------------------------------------------------------------------ bounds
MaxBatch == 2        \* longest search response (raw records)
MaxThread == 2       \* longest thread export (raw records)
MaxMbox == 3         \* longest mailbox handed to _unique_messages alone

\* ------------------------------------------------------------- header values
\* A header value is a sequence of one-character strings.  Python's None (the
\* header is missing) is the one value that is no sequence of characters.
None == <<"None">>

Range(s) == {s[k] : k \in 1..Len(s)}

SeqsUpTo(S, n) == UNION {[1..k -> S] : k \in 0..n}

\* str.lstrip("<"): every leading "<" is removed.
RECURSIVE LStrip(_)
LStrip(s) == IF s # <<>> /\ Head(s) = "<" THEN LStrip(Tail(s)) ELSE s

\* str.rstrip(">"): every trailing ">" is removed.
RECURSIVE RStrip(_)
RStrip(s) ==
    IF s # <<>> /\ s[Len(s)] = ">" THEN RStrip(SubSeq(s, 1, Len(s) - 1)) ELSE s

\* Message.__msg_id
MsgIdNoStrip(msgid) == msgid
MsgId(msgid) == IF msgid = None THEN None ELSE RStrip(LStrip(msgid))

\* Message.id
Id(msg) == MsgId(msg.mid)

\* Message.parent_id
ParentId(msg) == MsgId(msg.irt)

\* Message.is_thread_root
IsThreadRootAlways(msg) == TRUE
IsThreadRoot(msg) == ParentId(msg) = None

\* email.utils.parseaddr(...)[1] as used on From and on the user's identity:
\* the address between angle brackets when there are any, the text otherwise.
RECURSIVE UpTo(_, _)
UpTo(s, c) == IF s = <<>> \/ Head(s) = c THEN <<>> ELSE <<Head(s)>> \o UpTo(Tail(s), c)

RECURSIVE After(_, _)
After(s, c) == IF s = <<>> THEN <<>> ELSE IF Head(s) = c THEN Tail(s) ELSE After(Tail(s), c)

ParseAddr(s) == IF "<" \in Range(s) THEN UpTo(After(s, "<"), ">") ELSE s

\* Message.is_from_user
IsFromUser(msg, user) == ParseAddr(user) = ParseAddr(msg.frm)

\* Message.date: parsedate_to_datetime raises on a missing or malformed header.
DateRaises(msg) == msg.date.kind # "rfc2822"

\* Message.is_between_dates (only evaluated when Message.date does not raise)
IsBetweenDates(msg, since, until) == msg.date.day >= since /\ msg.date.day <= until

\* ---------------------------------------------------------- _unique_messages
\* The generator's state: the keys of the dict msgs and what was yielded so far.
UniqueInit == [msgs |-> {}, out |-> <<>>]

\* One iteration of the for loop, lines 73-78.
UniqueStepToggle(st, msg) ==
    IF Id(msg) \notin st.msgs
    THEN [msgs |-> st.msgs \cup {Id(msg)}, out |-> Append(st.out, msg)]
    ELSE [msgs |-> st.msgs \ {Id(msg)}, out |-> st.out]
UniqueStepPrepend(st, msg) ==
    IF Id(msg) \notin st.msgs
    THEN [msgs |-> st.msgs \cup {Id(msg)}, out |-> <<msg>> \o st.out]
    ELSE st
UniqueStepLast(st, msg) ==
    IF Id(msg) \notin st.msgs
    THEN [msgs |-> {Id(msg)}, out |-> Append(st.out, msg)]
    ELSE st
UniqueStep(st, msg) ==
    IF Id(msg) \notin st.msgs
    THEN [msgs |-> st.msgs \cup {Id(msg)}, out |-> Append(st.out, msg)]
    ELSE st

RECURSIVE UniqueLoop(_, _)
UniqueLoop(st, mbox) ==
    IF mbox = <<>> THEN st ELSE UniqueLoop(UniqueStep(st, Head(mbox)), Tail(mbox))

\* _unique_messages(mbox), fully consumed
UniqueMessages(mbox) == UniqueLoop(UniqueInit, mbox).out


\* ------------------------------------------------------------------ inputs
\* The query of one report: the user's identity and the date window.
Query == [user |-> <<"u">>, since |-> 2, until |-> 3]

Sent(d) == [kind |-> "rfc2822", day |-> d]
NoDate == [kind |-> "absent", day |-> 0]

FromUser == <<"A", " ", "<", "u", ">">>
FromOther == <<"o">>

Mail(mid, irt, frm, date) == [mid |-> mid, irt |-> irt, frm |-> frm, date |-> date]

\* Records the archive may hold.  RootA: started by the user inside the window;
\* RootB: started by somebody else, no Date header; RootN: from the user, no
\* Message-Id, dated outside the window;
\* RootX: from the user, no Date header, same id as RootB once normalised.
RootA == Mail(<<"<", "a", ">">>, None, FromUser, Sent(2))
RootB == Mail(<<"<", "b", ">">>, None, FromOther, NoDate)
RootN == Mail(None, None, FromUser, Sent(4))
RootX == Mail(<<"b">>, None, FromUser, NoDate)
ReplyC == Mail(<<"<", "c", ">">>, <<"<", "a", ">">>, FromUser, Sent(2))
ReplyD == Mail(<<"<", "d", ">">>, <<"<", "c", ">">>, FromUser, Sent(3))

SearchRecords == {RootA, RootB, RootN, RootX, ReplyC, ReplyD}
ThreadRecords == {RootA, RootX, ReplyC}

SearchBatches == SeqsUpTo(SearchRecords, MaxBatch)
ThreadBatches == SeqsUpTo(ThreadRecords, MaxThread)

\* Ids a thread export can be asked for: the ids of the replies of a search.
ThreadKeys == {Id(m) : m \in {r \in SearchRecords : ~IsThreadRoot(r)}}

\* Raw Message-Id headers given to _unique_messages on its own.
RawIds ==
    { None, <<>>, <<"<", ">">>, <<"a">>, <<"<", "a", ">">>, <<"<", "<", "a">>,
      <<"a", ">", ">">>, <<"<", "b", ">">> }
MboxRecords == {Mail(h, None, FromOther, Sent(2)) : h \in RawIds}
Mboxes == SeqsUpTo(MboxRecords, MaxMbox)

\* PublicInboxStats.stats, in the order the group holds them.
StatsList == <<"involved", "new">>
Views == Range(StatsList)

VARIABLES
    search,     \* archive: the raw records the search query returns
    threads,    \* archive: the thread export of each id, once it has been seen
    run,        \* how many Stats objects have started fetch
    pc,         \* where the running fetch is
    err,        \* per view: what made its fetch raise, "none" if nothing did
    requests,   \* HTTP requests issued by the running get_all_threads call
    cands,      \* the messages _unique_messages gives for the search response
    i,          \* index in cands of the candidate being processed
    found,      \* get_all_threads' list found
    yielded,    \* per view: what get_all_threads yielded to it
    origin,     \* per message yielded in the running call: how it came about
    acc,        \* the list the running comprehension has built so far
    stats,      \* per view: self.stats
    mbox,       \* a mailbox handed to _unique_messages
    once,       \* _unique_messages(mbox)
    twice,      \* _unique_messages over the records of once
    dpc         \* how many times _unique_messages has been applied

vars ==
    << search, threads, run, pc, err, requests, cands, i, found, yielded, origin,
       acc, stats, mbox, once, twice, dpc >>

resolverVars ==
    << search, threads, run, pc, err, requests, cands, i, found, yielded, origin,
       acc, stats >>
dedupVars == << mbox, once, twice, dpc >>

Unknown == [known |-> FALSE, mbox |-> <<>>]
Known(b) == [known |-> TRUE, mbox |-> b]
Unassigned == [set |-> FALSE, val |-> <<>>]
Assigned(l) == [set |-> TRUE, val |-> l]

view == StatsList[run]

\* ------------------------------------------------------------ the resolver
\* PublicInbox.__get_thread_root, lines 105-109: the first record without
\* In-Reply-To, as a one-element sequence; the empty sequence when the loop
\* falls through (the function then returns None).
RECURSIVE GetThreadRootLast(_)
GetThreadRootLast(b) ==
    IF b = <<>> THEN <<>>
    ELSE IF ParentId(b[Len(b)]) = None THEN <<b[Len(b)]>>
    ELSE GetThreadRootLast(SubSeq(b, 1, Len(b) - 1))
GetThreadRootHead(b) == IF b = <<>> THEN <<>> ELSE <<Head(b)>>
RECURSIVE GetThreadRoot(_)
GetThreadRoot(b) ==
    IF b = <<>> THEN <<>>
    ELSE IF ParentId(Head(b)) = None THEN <<Head(b)>>
    ELSE GetThreadRoot(Tail(b))

\* line 129: msg_id in found
InFound(l, id) == id \in Range(l)

\* line 135: root_id in found
RootInFoundNever(l, id) == FALSE
RootInFound(l, id) == id \in Range(l)

\* The filter of NewThreads.fetch, lines 161-162.  `and` evaluates the date
\* only for a message from the user.
NewRaises(msg) == IsFromUser(msg, Query.user) /\ DateRaises(msg)
NewKeeps(msg) ==
    IsFromUser(msg, Query.user) /\ IsBetweenDates(msg, Query.since, Query.until)

\* The filter of InvolvedThreads.fetch, lines 194-195.  `or` stops at a
\* message that is not from the user.
InvolvedRaises(msg) == IsFromUser(msg, Query.user) /\ DateRaises(msg)
InvolvedKeepsNotUser(msg) == ~IsFromUser(msg, Query.user)
InvolvedKeeps(msg) ==
    ~IsFromUser(msg, Query.user) \/ ~IsBetweenDates(msg, Query.since, Query.until)

FilterRaises(v, msg) == IF v = "new" THEN NewRaises(msg) ELSE InvolvedRaises(msg)
FilterKeeps(v, msg) == IF v = "new" THEN NewKeeps(msg) ELSE InvolvedKeeps(msg)

\* An exception leaves get_all_threads and the comprehension: fetch ends
\* before the assignment to self.stats (lines 156 and 189).
RaiseStoresPartial(kind) ==
    /\ pc' = "failed"
    /\ err' = [err EXCEPT ![view] = kind]
    /\ stats' = [stats EXCEPT ![view] = Assigned(acc)]
Raise(kind) ==
    /\ pc' = "failed"
    /\ err' = [err EXCEPT ![view] = kind]
    /\ UNCHANGED stats

\* `yield m` (lines 139 and 142) and the comprehension's filter on m.
Yield(m, how) ==
    /\ yielded' = [yielded EXCEPT ![view] = Append(@, m)]
    /\ origin' = Append(origin, how)
    /\ IF FilterRaises(view, m)
       THEN /\ Raise("date")
            /\ UNCHANGED <<i, acc>>
       ELSE /\ acc' = IF FilterKeeps(view, m) THEN Append(acc, m) ELSE acc
            /\ i' = i + 1
            /\ pc' = "loop"
            /\ UNCHANGED <<err, stats>>

Request(kind, id) == [kind |-> kind, id |-> id, cand |-> i]

\* NewThreads.fetch / InvolvedThreads.fetch start: get_all_threads posts the
\* search, lines 115-123.
StartFetch ==
    /\ pc \in {"idle", "done", "failed"}
    /\ run < Len(StatsList)
    /\ run' = run + 1
    /\ pc' = "search"
    /\ requests' = <<[kind |-> "search", id |-> None, cand |-> 0]>>
    /\ cands' = <<>>
    /\ i' = 1
    /\ found' = <<>>
    /\ origin' = <<>>
    /\ acc' = <<>>
    /\ UNCHANGED <<search, threads, err, yielded, stats, dedupVars>>

\* The search response arrives and is parsed, lines 125-127.
SearchResponse ==
    /\ pc = "search"
    /\ cands' = UniqueMessages(search)
    /\ pc' = "loop"
    /\ UNCHANGED <<search, threads, run, err, requests, i, found, yielded, origin,
                   acc, stats, dedupVars>>

\* requests.post raises, or gzip.decompress does (line 93).
SearchFails ==
    /\ pc = "search"
    /\ Raise("fetch")
    /\ UNCHANGED <<search, threads, run, requests, cands, i, found, yielded, origin,
                   acc, dedupVars>>

\* lines 129-130
SkipFound ==
    /\ pc = "loop"
    /\ i <= Len(cands)
    /\ InFound(found, Id(cands[i]))
    /\ i' = i + 1
    /\ UNCHANGED <<search, threads, run, pc, err, requests, cands, found, yielded,
                   origin, acc, stats, dedupVars>>

\* lines 140-142
YieldCandidate ==
    /\ pc = "loop"
    /\ i <= Len(cands)
    /\ ~InFound(found, Id(cands[i]))
    /\ IsThreadRoot(cands[i])
    /\ found' = Append(found, Id(cands[i]))
    /\ Yield(cands[i], [cand |-> i, via |-> "search", nreq |-> Len(requests),
                         mbox |-> <<>>])
    /\ UNCHANGED <<search, threads, run, requests, cands, dedupVars>>

\* lines 132-133 and 102-103: the thread export is requested.
RequestThread ==
    /\ pc = "loop"
    /\ i <= Len(cands)
    /\ ~InFound(found, Id(cands[i]))
    /\ ~IsThreadRoot(cands[i])
    /\ requests' = Append(requests, Request("thread", Id(cands[i])))
    /\ pc' = "thread"
    /\ UNCHANGED <<search, threads, run, err, cands, i, found, yielded, origin,
                   acc, stats, dedupVars>>

\* lines 104-109 and 134-139: the export b arrives.  The archive's content is
\* fixed: an export seen before is the same the next time.
ThreadResponse ==
    /\ pc = "thread"
    /\ \E b \in ThreadBatches :
        LET key == Id(cands[i])
            root == GetThreadRoot(b)
        IN  /\ threads[key].known => threads[key].mbox = b
            /\ threads' = [threads EXCEPT ![key] = Known(b)]
            /\ IF root = <<>>
               THEN \* root is None: root.id() raises AttributeError, line 134
                    /\ Raise("noroot")
                    /\ UNCHANGED <<i, found, yielded, origin, acc>>
               ELSE IF RootInFound(found, Id(root[1]))
               THEN /\ i' = i + 1
                    /\ pc' = "loop"
                    /\ UNCHANGED <<err, found, yielded, origin, acc, stats>>
               ELSE /\ found' = Append(found, Id(root[1]))
                    /\ Yield(root[1], [cand |-> i, via |-> "thread",
                                        nreq |-> Len(requests), mbox |-> b])
    /\ UNCHANGED <<search, run, requests, cands, dedupVars>>

\* requests.get raises, or gzip.decompress does (line 93).
ThreadFails ==
    /\ pc = "thread"
    /\ Raise("fetch")
    /\ UNCHANGED <<search, threads, run, requests, cands, i, found, yielded, origin,
                   acc, dedupVars>>

\* The generator is exhausted: the comprehension's list is assigned to
\* self.stats, lines 156 and 189.
Finish ==
    /\ pc = "loop"
    /\ i > Len(cands)
    /\ stats' = [stats EXCEPT ![view] = Assigned(acc)]
    /\ pc' = "done"
    /\ UNCHANGED <<search, threads, run, err, requests, cands, i, found, yielded,
                   origin, acc, dedupVars>>

InitResolver ==
    /\ threads = [k \in ThreadKeys |-> Unknown]
    /\ run = 0
    /\ pc = "idle"
    /\ err = [v \in Views |-> "none"]
    /\ requests = <<>>
    /\ cands = <<>>
    /\ i = 1
    /\ found = <<>>
    /\ yielded = [v \in Views |-> <<>>]
    /\ origin = <<>>
    /\ acc = <<>>
    /\ stats = [v \in Views |-> Unassigned]

InitDedup ==
    /\ once = <<>>
    /\ twice = <<>>
    /\ dpc = 0

Init ==
    /\ search \in SearchBatches
    /\ InitResolver
    /\ mbox = <<>>
    /\ InitDedup

Next ==
    \/ StartFetch
    \/ SearchResponse
    \/ SearchFails
    \/ SkipFound
    \/ YieldCandidate
    \/ RequestThread
    \/ ThreadResponse
    \/ ThreadFails
    \/ Finish

Spec == Init /\ [][Next]_vars

\* ------------------------------------------- _unique_messages on its own
\* _unique_messages is applied to mbox.
ApplyUnique ==
    /\ dpc = 0
    /\ once' = UniqueMessages(mbox)
    /\ dpc' = 1
    /\ UNCHANGED <<mbox, twice, resolverVars>>

\* _unique_messages is applied to a mailbox holding the records it yielded.
ApplyAgain ==
    /\ dpc = 1
    /\ twice' = UniqueMessages(once)
    /\ dpc' = 2
    /\ UNCHANGED <<mbox, once, resolverVars>>

InitUnique ==
    /\ mbox \in Mboxes
    /\ search = <<>>
    /\ InitResolver
    /\ InitDedup

NextUnique == ApplyUnique \/ ApplyAgain

SpecUnique == InitUnique /\ [][NextUnique]_vars

\* ------------------------------------------------------------------ claims
Running == run >= 1
LastRequest == requests[Len(requests)]
ThreadRequests == {n \in 1..Len(requests) : requests[n].kind = "thread"}

\* b[n] is the first record of b without In-Reply-To.
FirstParentlessAt(b, n) ==
    /\ n \in 1..Len(b)
    /\ b[n].irt = None
    /\ \A j \in 1..(n - 1) : b[j].irt # None

\* C1: one call of get_all_threads never yields two messages with the same
\* message id, whether they come from the search or from thread exports.
NoDuplicateRoots ==
    \A v \in Views : \A p, q \in 1..Len(yielded[v]) :
        p # q => Id(yielded[v][p]) # Id(yielded[v][q])

\* C1 witness: two replies of the search had their threads fetched, both
\* exports gave a root with the same id, and the finished call yielded one root.
TwoRepliesOneRoot ==
    /\ Running
    /\ pc = "done"
    /\ Cardinality(ThreadRequests) = 2
    /\ \A k \in ThreadKeys : threads[k].known /\ GetThreadRoot(threads[k].mbox) # <<>>
    /\ Cardinality({Id(GetThreadRoot(threads[k].mbox)[1]) : k \in ThreadKeys}) = 1
    /\ Len(yielded[view]) = 1

\* C2: every message yielded so far has no In-Reply-To.
RootInvariance ==
    \A v \in Views : \A k \in 1..Len(yielded[v]) : yielded[v][k].irt = None

\* C2 witness: a call has yielded one root found in a thread export and one
\* taken straight from the search.
YieldedBothWays ==
    /\ Running
    /\ \E p, q \in 1..Len(origin) : origin[p].via = "thread" /\ origin[q].via = "search"

\* The starter predicate of section 4.5, on a message whose date parses.
Started(m) ==
    /\ ParseAddr(m.frm) = ParseAddr(Query.user)
    /\ m.date.kind = "rfc2822"
    /\ m.date.day \in Query.since..Query.until

\* C3: a fetch that assigns its stats kept, of the roots resolved for it,
\* exactly those from the user dated inside the window (NewThreads) or exactly
\* the others (InvolvedThreads); when both have assigned their stats, both ran
\* over the same resolved sequence and every resolved root is in exactly one
\* of the two.
ClassifierPartition ==
    /\ stats["new"].set => stats["new"].val = SelectSeq(yielded["new"], Started)
    /\ stats["involved"].set =>
        stats["involved"].val = SelectSeq(yielded["involved"], LAMBDA m : ~Started(m))
    /\ (stats["new"].set /\ stats["involved"].set) =>
        LET R == yielded["new"]
            N == stats["new"].val
            V == stats["involved"].val
        IN  /\ yielded["involved"] = R
            /\ N = SelectSeq(R, Started)
            /\ V = SelectSeq(R, LAMBDA m : ~Started(m))
            /\ \A k \in 1..Len(R) : (R[k] \in Range(N)) # (R[k] \in Range(V))
            /\ Range(N) \cap Range(V) = {}
            /\ Range(N) \cup Range(V) = Range(R)

\* C3 witness: both fetches completed and each kept something.
BothViewsNonEmpty ==
    /\ stats["new"].set /\ stats["involved"].set
    /\ stats["new"].val # <<>>
    /\ stats["involved"].val # <<>>

\* Indices of mbox holding the first occurrence of their message id.
FirstIdx(b) == {k \in 1..Len(b) : \A j \in 1..(k - 1) : Id(b[j]) # Id(b[k])}
NthFirst(b, n) == CHOOSE k \in FirstIdx(b) : Cardinality({j \in FirstIdx(b) : j <= k}) = n

\* C4: _unique_messages yields exactly the first occurrence of each distinct
\* message id of the mailbox, in the mailbox's order.
UniqueIsFirstOccurrences ==
    dpc >= 1 =>
        /\ Len(once) = Cardinality(FirstIdx(mbox))
        /\ \A n \in 1..Len(once) : once[n] = mbox[NthFirst(mbox, n)]
        /\ \A p, q \in 1..Len(once) : p # q => Id(once[p]) # Id(once[q])
        /\ {Id(m) : m \in Range(once)} = {Id(m) : m \in Range(mbox)}

\* C4 witness: ids [m1, m2, m2], the two m2 records spelled differently,
\* gave [m1, m2].
ScenarioA ==
    /\ dpc >= 1
    /\ Len(mbox) = 3
    /\ Id(mbox[1]) # Id(mbox[2])
    /\ Id(mbox[2]) = Id(mbox[3])
    /\ mbox[2] # mbox[3]
    /\ once = <<mbox[1], mbox[2]>>

\* C5: _unique_messages over the records it yielded yields them again.
UniqueIdempotent == dpc = 2 => twice = once

\* C5 witness: the second application ran on the output of a first one that
\* dropped a record, for a mailbox with a record without Message-Id.
SecondPassAfterDrop ==
    /\ dpc = 2
    /\ Len(once) \in 2..(Len(mbox) - 1)
    /\ \E k \in 1..Len(mbox) : mbox[k].mid = None

\* Indices of the records of b without a Message-Id header.
IdlessRecords(b) == {k \in 1..Len(b) : b[k].mid = None}

\* C7, as claimed: records without Message-Id are not deduplicated against
\* each other, so each of them is yielded.
IdlessNeverDeduplicated ==
    dpc >= 1 => Cardinality(IdlessRecords(once)) = Cardinality(IdlessRecords(mbox))

\* C6: whatever is yielded while a reply is the candidate is the first record
\* without In-Reply-To of the export fetched for that reply, never the reply;
\* a candidate yielded from the search is a root.
OnlyFetchedRootForReply ==
    Running =>
        /\ Len(origin) = Len(yielded[view])
        /\ \A k \in 1..Len(origin) :
            LET o == origin[k]
                c == cands[o.cand]
                y == yielded[view][k]
            IN  IF c.irt # None
                THEN /\ o.via = "thread"
                     /\ y # c
                     /\ requests[o.nreq] = [kind |-> "thread", id |-> Id(c), cand |-> o.cand]
                     /\ threads[Id(c)] = Known(o.mbox)
                     /\ \E n \in 1..Len(o.mbox) : FirstParentlessAt(o.mbox, n) /\ y = o.mbox[n]
                     /\ \A j \in 1..Len(origin) : origin[j].cand = o.cand => j = k
                ELSE o.via = "search" /\ y = c

\* C6 witness: a reply's export held two records without In-Reply-To and the
\* first of them was yielded.
YieldedFirstOfTwoRoots ==
    /\ Running
    /\ \E k \in 1..Len(origin) :
        /\ origin[k].via = "thread"
        /\ Cardinality({n \in 1..Len(origin[k].mbox) : origin[k].mbox[n].irt = None}) = 2

\* C8: when a search or thread request fails, that request is the last one the
\* call issued and it was issued once, no request and no yield belongs to a
\* later candidate, and the fetch leaves self.stats unassigned.
FetchFailureAborts ==
    /\ \A v \in Views : err[v] # "none" => stats[v] = Unassigned
    /\ (Running /\ pc = "failed" /\ err[view] = "fetch") =>
        /\ \A n \in 1..Len(requests) :
            (requests[n].kind = LastRequest.kind /\ requests[n].id = LastRequest.id)
                => n = Len(requests)
        /\ LastRequest.cand = IF LastRequest.kind = "search" THEN 0 ELSE i
        /\ \A n \in 1..Len(requests) : requests[n].cand <= LastRequest.cand
        /\ \A k \in 1..Len(origin) : origin[k].cand < i
        /\ stats[view] = Unassigned

\* C8 witness: a thread request failed after the call had yielded a root the
\* filter kept.
FailedAfterPartialResult ==
    /\ Running
    /\ pc = "failed"
    /\ err[view] = "fetch"
    /\ LastRequest.kind = "thread"
    /\ acc # <<>>

\* C9, as claimed: an export without any parentless record makes no fetch
\* fail.
NoRootIsSilent == \A v \in Views : err[v] # "noroot"

\* Index in the search response of the first record with m's message id.
PosInSearch(m) ==
    CHOOSE n \in 1..Len(search) :
        Id(search[n]) = Id(m) /\ \A j \in 1..(n - 1) : Id(search[j]) # Id(m)

\* Candidate c of the running call resolved to message id r.
ResolvesTo(c, r) ==
    IF cands[c].irt = None THEN Id(cands[c]) = r
    ELSE \E n \in ThreadRequests :
            /\ requests[n].cand = c
            /\ threads[Id(cands[c])].known
            /\ GetThreadRoot(threads[Id(cands[c])].mbox) # <<>>
            /\ Id(GetThreadRoot(threads[Id(cands[c])].mbox)[1]) = r

\* C10: roots are yielded in the order in which the candidates they came from
\* occur in the search response; the candidate a root came from is the first
\* one that resolved to it; and when a root is yielded no thread of a later
\* candidate has been requested.
EmissionFollowsSearchOrder ==
    Running =>
        \A k \in 1..Len(origin) :
            LET o == origin[k]
            IN  /\ ResolvesTo(o.cand, Id(yielded[view][k]))
                /\ \A c \in 1..(o.cand - 1) : ~ResolvesTo(c, Id(yielded[view][k]))
                /\ \A n \in 1..o.nreq : requests[n].cand <= o.cand
                /\ o.nreq <= Len(requests)
                /\ \A j \in 1..(k - 1) :
                    PosInSearch(cands[origin[j].cand]) < PosInSearch(cands[o.cand])

\* C10 witness: a root found through a reply's thread was yielded before a root
\* taken from the search.
ThreadRootThenSearchRoot ==
    /\ Running
    /\ Len(origin) >= 2
    /\ origin[1].via = "thread"
    /\ origin[2].via = "search"

====
